---- MODULE Spec2Model ----
(***************************************************************************)
(* Model of format-ts-cli: the edit applier (src/formatter.js, bundled in  *)
(* src/build-bun.sh) and the scan-and-apply pipeline (bin/format-ts.js).   *)
(*                                                                         *)
(* Two specifications share this module:                                   *)
(*   SpecFormat : format() of createSingleFileFormatter, one loop          *)
(*                iteration per step, on bounded texts and edit lists;     *)
(*   Spec       : run() of bin/format-ts.js: configuration phase,          *)
(*                collectFiles/walk, the worker pool, outcome derivation.  *)
(***************************************************************************)
EXTENDS Integers, Sequences, FiniteSets, TLC

VARIABLES
    \* ---- format() (src/build-bun.sh:213-233) ----
    fpc,            \* position inside format(): "idle", "enter", "loop", "returned"
    text,           \* closure variable `text` of createSingleFileFormatter
    edits,          \* the list returned by getFormattingEditsForDocument
    result,         \* local `result`
    fi,             \* loop variable `i`, 1-based (JS i + 1)
    \* ---- run() (src/bin/format-ts.js:161-338) ----
    pc,             \* position inside run()
    parsed,         \* what parseArgs did: "ok", "throws", "help"
    target,         \* what the resolved target path is on disk
    options,        \* resolved options record
    files,          \* `files`
    stack,          \* call stack of walk(): frames [dir, pos]
    readDirs,       \* directories whose entries readdirSync returned
    index,          \* `index`, the shared claim cursor
    started,        \* loop variable of the for loop that starts the workers
    wpc,            \* position of the running worker: "idle","claim","probe","format","write"
    cur,            \* local `i` of the running worker
    formattedText,  \* local `formattedText` of the running worker
    filesChecked,   \* `filesChecked`
    filesChanged,   \* `filesChanged`
    changedFiles,   \* `changedFiles`
    disk,           \* on-disk content of every file
    exitCode,       \* process.exitCode (0 while undefined)
    summary,        \* what lines 311-319 reported: filesChecked, filesChanged
    \* ---- history of the run, read by the properties only ----
    disk0,          \* on-disk content at the start of the run
    claims,         \* sequence of [w, i]: worker w evaluated `index++` to i
    formatted,      \* per file what formatFile did
    writes,         \* per file the number of writeFileSync calls
    failedDirs,     \* directories for which readdirSync threw
    errors          \* paths reported by console.error in the catch of worker()

fvars == <<fpc, text, edits, result, fi>>
rvars == <<pc, parsed, target, options, files, stack, readDirs, failedDirs,
           index, started, wpc, cur, formattedText, filesChecked, filesChanged, changedFiles,
           disk, exitCode, summary, disk0, claims, formatted, writes, errors>>
vars == <<fvars, rvars>>

----------------------------------------------------------------------------
(* Bounds *)

MaxLen == 3        \* longest original text given to format()
MaxSpan == 1       \* longest span.length of an edit
MaxEdits == 2      \* longest edit list
MaxC == 2          \* largest --concurrency value

Min(a, b) == IF a < b THEN a ELSE b

----------------------------------------------------------------------------
(* Texts and edits *)

Alphabet == <<"a", "b", "c", "d", "e">>

\* Original texts: pairwise distinct characters, so that every offset of the
\* original is recognisable in the result.
Texts == { SubSeq(Alphabet, 1, n) : n \in 0..Min(MaxLen, Len(Alphabet)) }

NewTexts == { <<>>, <<"x">> }

\* TextChange objects: span.start, span.length, newText.  Starts up to
\* MaxLen, so that on the shorter texts some ranges are out of bounds.
TextChanges == [start : 0..MaxLen, length : 0..MaxSpan, newText : NewTexts]

RECURSIVE SeqsUpTo(_, _)
SeqsUpTo(S, n) ==
    IF n = 0 THEN { <<>> }
    ELSE LET shorter == SeqsUpTo(S, n - 1)
         IN  shorter \cup { Append(s, x) : s \in { t \in shorter : Len(t) = n - 1 }, x \in S }

\* String.prototype.slice(0, n) for n >= 0: n is clamped to the length.
SliceTo(s, n) == SubSeq(s, 1, Min(n, Len(s)))

\* String.prototype.slice(n) for n >= 0: n is clamped to the length.
SliceFrom(s, n) == SubSeq(s, Min(n, Len(s)) + 1, Len(s))

\* result.slice(0, start) + e.newText + result.slice(end)
applyEdit(r, e) ==
    SliceTo(r, e.start) \o e.newText \o SliceFrom(r, e.start + e.length)

\* for (let i = edits.length - 1; i >= 0; i--) { ... }
RECURSIVE applyBackToFront(_, _, _)
applyBackToFront(r, es, i) ==
    IF i = 0 THEN r ELSE applyBackToFront(applyEdit(r, es[i]), es, i - 1)

\* format(): the text unchanged when there are no edits, else the edits
\* applied in reverse list order.
format(t, es) ==
    IF Len(es) = 0 THEN t ELSE applyBackToFront(t, es, Len(es))

----------------------------------------------------------------------------
(* format() step by step *)

FormatIdle ==
    /\ fpc = "idle" /\ text = <<>> /\ edits = <<>> /\ result = <<>> /\ fi = 0

InitFormatVars ==
    /\ fpc = "enter"
    /\ text \in Texts
    /\ edits \in SeqsUpTo(TextChanges, MaxEdits)
    /\ result = <<>>
    /\ fi = 0

\* lines 214-221: no edits, return text
FormatNoEdits ==
    /\ fpc = "enter"
    /\ Len(edits) = 0
    /\ result' = text
    /\ fpc' = "returned"
    /\ UNCHANGED <<text, edits, fi, rvars>>

\* lines 223-225: let result = text; i = edits.length - 1
FormatBegin ==
    /\ fpc = "enter"
    /\ Len(edits) # 0
    /\ result' = text
    /\ fi' = Len(edits)
    /\ fpc' = "loop"
    /\ UNCHANGED <<text, edits, rvars>>

\* lines 225-230: one iteration of the loop
FormatApply ==
    /\ fpc = "loop"
    /\ fi >= 1
    /\ result' = applyEdit(result, edits[fi])
    /\ fi' = fi - 1
    /\ UNCHANGED <<fpc, text, edits, rvars>>

\* line 232: return result
FormatReturn ==
    /\ fpc = "loop"
    /\ fi = 0
    /\ fpc' = "returned"
    /\ UNCHANGED <<text, edits, result, fi, rvars>>

----------------------------------------------------------------------------
(* File tree, paths and glob patterns *)

\* An entry name "base.ext" (a directory has no extension).
N(base, ext) == [base |-> base, ext |-> ext]

\* Paths are sequences of names, relative to the root directory (what
\* path.relative(rootDir, fullPath).split(path.sep).join("/") denotes).
RootDir == <<>>

Dirs == { RootDir,
          <<N("node_modules", "")>>,
          <<N("src", "")>>,
          <<N("src", ""), N("gen", "")>> }

\* What fs.readdirSync(dir, { withFileTypes: true }) returns for each
\* directory of the tree: the names, in directory order.
Entries(dir) ==
    IF dir = RootDir THEN
        << N("a", "ts"), N("node_modules", ""), N("notes", "md"), N("src", ""),
           N("E", "TS") >>
    ELSE IF dir = <<N("node_modules", "")>> THEN
        << N("c", "ts") >>
    ELSE IF dir = <<N("src", "")>> THEN
        << N("b", "ts"), N("gen", "") >>
    ELSE IF dir = <<N("src", ""), N("gen", "")>> THEN
        << N("d", "js") >>
    ELSE << >>

\* Every entry of the tree, and the regular files among them.
AllEntries == UNION { { Append(d, Entries(d)[k]) : k \in 1..Len(Entries(d)) } : d \in Dirs }

\* entry.isDirectory() / entry.isFile(): every entry of the tree is one or
\* the other.
isDirectory(p) == p \in Dirs

AllFiles == AllEntries \ Dirs

\* Glob patterns, as Minimatch splits them at "/": a sequence of segments.
\*   lit      a literal name                       node_modules, b.ts
\*   ext      "*." followed by a brace set          *.ts, *.{ts,tsx,js}
\*   globstar "**"
Lit(n) == [k |-> "lit", name |-> n, exts |-> {}]
Ext(es) == [k |-> "ext", name |-> N("", ""), exts |-> es]
GlobStar == [k |-> "globstar", name |-> N("", ""), exts |-> {}]

\* One pattern segment against one path segment.  No name of the tree
\* starts with a dot, so the `dot` option makes no difference here.
SegMatch(seg, n) ==
    CASE seg.k = "lit" -> n = seg.name
      [] seg.k = "ext" -> n.ext \in seg.exts
      [] OTHER -> FALSE

RECURSIVE MatchSegs(_, _)
MatchSegs(pat, p) ==
    IF pat = <<>> THEN p = <<>>
    ELSE IF Head(pat).k = "globstar"
         THEN \/ MatchSegs(Tail(pat), p)
              \/ (p # <<>> /\ MatchSegs(pat, Tail(p)))
         ELSE /\ p # <<>>
              /\ SegMatch(Head(pat), Head(p))
              /\ MatchSegs(Tail(pat), Tail(p))

\* Minimatch.match with matchBase: true -- a pattern without a slash is
\* matched against the basename of the path.
Match(pat, p) ==
    IF Len(pat) = 1 /\ Len(p) > 1
    THEN MatchSegs(pat, <<p[Len(p)]>>)
    ELSE MatchSegs(pat, p)

\* parseArgs defaults (lines 28-29)
DefaultInclude == << GlobStar, Ext({"ts", "tsx", "js"}) >>
DefaultExclude ==
    << <<Lit(N("node_modules", ""))>>, <<Lit(N("dist", ""))>>, <<Lit(N("build", ""))>>,
       <<Lit(N("coverage", ""))>>, <<Lit(N(".git", ""))>> >>

\* --include values
Includes == { DefaultInclude,            \* **/*.{ts,tsx,js}
              << Ext({"ts"}) >>,          \* *.ts
              << Ext({"tsx"}) >> }        \* *.tsx

\* --exclude values
Excludes == { DefaultExclude,
              << >>,                                             \* ","
              << <<Lit(N("src", "")), Lit(N("gen", ""))>> >>,    \* src/gen
              << <<Lit(N("b", "ts"))>> >>,                       \* b.ts
              << <<Ext({"ts"})>>, <<Lit(N("gen", ""))>> >> }     \* *.ts,gen

\* excludeMatchers.some((m) => m.match(relPath) || m.match(entry.name))
excluded(excl, relPath, name) ==
    \E k \in 1..Len(excl) : Match(excl[k], relPath) \/ Match(excl[k], <<name>>)

\* includeMatcher.match(relPath) || includeMatcher.match(entry.name)
included(incl, relPath, name) ==
    Match(incl, relPath) \/ Match(incl, <<name>>)

----------------------------------------------------------------------------
(* File contents and the formatting oracle *)

ProbeSize == 1024

TextContent == << "a", "b" >>
BinaryContent == << "a", "NUL" >>
Contents == { TextContent, BinaryContent }

\* isTextFile without the scan for null bytes
isTextFile_NoScan(content, openOk) == openOk

\* isTextFile: FALSE when the file cannot be opened or a null byte is among
\* the first ProbeSize bytes.
isTextFile(content, openOk) ==
    /\ openOk
    /\ \A k \in 1..Min(Len(content), ProbeSize) : content[k] # "NUL"

\* Edit lists languageService.getFormattingEditsForDocument may return for
\* a file: none, an insertion, an edit that replaces nothing by nothing, an
\* edit whose range lies beyond the end of the text.
OracleEdits ==
    { << >>,
      << [start |-> 1, length |-> 0, newText |-> <<"x">>] >>,
      << [start |-> 0, length |-> 0, newText |-> <<>>] >>,
      << [start |-> 3, length |-> 1, newText |-> <<"x">>] >> }

\* What formatFile did for a file, as the run's history records it.
\* For a file formatFile returned for, the record keeps the edit list the
\* language service gave and the text format() made of it.
NotFormatted == [st |-> "none", text |-> <<>>, edits |-> <<>>]
Skipped == [st |-> "skipped", text |-> <<>>, edits |-> <<>>]
Threw == [st |-> "threw", text |-> <<>>, edits |-> <<>>]
Returned(es, t) == [st |-> "returned", text |-> t, edits |-> es]

----------------------------------------------------------------------------
(* run(): initial states *)

\* What the command line resolves to.
OptionSets ==
    [include : Includes, exclude : Excludes, concurrency : 1..MaxC,
     dry : BOOLEAN, check : BOOLEAN]

DefaultOptions ==
    [include |-> DefaultInclude, exclude |-> DefaultExclude, concurrency |-> 1,
     dry |-> FALSE, check |-> FALSE]

\* What the target path is: absent from the command line, not existing,
\* failing to stat, a directory (the root of the tree), a regular file, or
\* neither a file nor a directory.
Targets ==
    { [kind |-> k, path |-> RootDir] : k \in {"none", "missing", "statfail", "dir", "other"} }
    \cup { [kind |-> "file", path |-> p] :
               p \in { <<N("a", "ts")>>, <<N("notes", "md")>>, <<N("E", "TS")>> } }

AllText == [f \in AllFiles |-> TextContent]

\* The summary of lines 311-319 (the elapsed time is not modelled): not
\* reached yet, or the two counters as they were reported.
NoSummary == [reported |-> FALSE, filesChecked |-> 0, filesChanged |-> 0]
Summary(checked, changed) ==
    [reported |-> TRUE, filesChecked |-> checked, filesChanged |-> changed]

RunIdle ==
    /\ pc = "off" /\ parsed = "ok" /\ target = [kind |-> "dir", path |-> RootDir]
    /\ options = DefaultOptions
    /\ files = <<>> /\ stack = <<>> /\ readDirs = {} /\ failedDirs = {}
    /\ index = 0 /\ started = 0 /\ wpc = "idle" /\ cur = 0 /\ formattedText = <<>>
    /\ filesChecked = 0 /\ filesChanged = 0 /\ changedFiles = <<>>
    /\ disk = AllText /\ exitCode = 0 /\ summary = NoSummary /\ disk0 = AllText
    /\ claims = <<>> /\ formatted = [f \in AllFiles |-> NotFormatted]
    /\ writes = [f \in AllFiles |-> 0] /\ errors = {}

InitRunVars ==
    /\ pc = "config"
    /\ parsed \in {"ok", "throws", "help"}
    /\ target \in Targets
    /\ options \in OptionSets
    /\ disk \in [AllFiles -> Contents]
    \* only a run that reaches a file depends on the options and the contents
    /\ (parsed # "ok" \/ target.kind \notin {"dir", "file"}) =>
          /\ options = DefaultOptions
          /\ disk = AllText
          /\ (parsed # "ok" => target.kind = "dir")
    \* in a directory run a file the include glob does not match is never opened
    /\ target.kind = "dir" =>
          \A f \in AllFiles :
              ~included(options.include, f, f[Len(f)]) => disk[f] = TextContent
    /\ files = <<>> /\ stack = <<>> /\ readDirs = {} /\ failedDirs = {}
    /\ index = 0 /\ started = 0 /\ wpc = "idle" /\ cur = 0 /\ formattedText = <<>>
    /\ filesChecked = 0 /\ filesChanged = 0 /\ changedFiles = <<>>
    /\ exitCode = 0 /\ summary = NoSummary /\ disk0 = disk
    /\ claims = <<>> /\ formatted = [f \in AllFiles |-> NotFormatted]
    /\ writes = [f \in AllFiles |-> 0] /\ errors = {}

\* The variables a step of the configuration phase or of the traversal
\* leaves alone.
poolVars == <<index, started, wpc, cur, formattedText, filesChecked, filesChanged,
              changedFiles, disk, disk0, claims, formatted, writes, errors>>
configVars == <<parsed, target, options>>

----------------------------------------------------------------------------
(* run(): configuration phase, lines 167-263 *)

\* parseArgs called outside the try: the error reaches run().catch, which
\* sets exit code 1
ParseArgsThrows_Uncaught ==
    /\ pc = "config" /\ parsed = "throws"
    /\ exitCode' = 1
    /\ pc' = "done"
    /\ UNCHANGED <<fvars, configVars, summary, files, stack, readDirs, failedDirs, poolVars>>

\* lines 167-177: parseArgs throws
ParseArgsThrows ==
    /\ pc = "config" /\ parsed = "throws"
    /\ exitCode' = 2
    /\ pc' = "done"
    /\ UNCHANGED <<fvars, configVars, summary, files, stack, readDirs, failedDirs, poolVars>>

\* lines 179-182: --help
ShowHelp ==
    /\ pc = "config" /\ parsed = "help"
    /\ pc' = "done"
    /\ UNCHANGED <<fvars, configVars, summary, files, stack, readDirs, failedDirs, exitCode, poolVars>>

\* lines 187-192, 203-207, 209-216, 259-263: no target, target that does
\* not exist, stat failure, target that is neither file nor directory
BadTarget ==
    /\ pc = "config" /\ parsed = "ok"
    /\ target.kind \in {"none", "missing", "statfail", "other"}
    /\ exitCode' = 2
    /\ pc' = "done"
    /\ UNCHANGED <<fvars, configVars, summary, files, stack, readDirs, failedDirs, poolVars>>

\* path.extname(targetPath), without the dot
extname(p) == p[Len(p)].ext

\* String.prototype.toLowerCase on the extensions that occur
toLowerCase_Identity(e) == e

toLowerCase(e) ==
    CASE e = "TS" -> "ts"
      [] e = "TSX" -> "tsx"
      [] e = "JS" -> "js"
      [] e = "MD" -> "md"
      [] OTHER -> e

\* line 245-246: ext is ".ts", ".tsx" or ".js"
supportedExt(p) == toLowerCase(extname(p)) \in {"ts", "tsx", "js"}

\* lines 244-250: a single file with an unsupported extension
UnsupportedFile ==
    /\ pc = "config" /\ parsed = "ok" /\ target.kind = "file"
    /\ ~supportedExt(target.path)
    /\ exitCode' = 2
    /\ pc' = "done"
    /\ UNCHANGED <<fvars, configVars, summary, files, stack, readDirs, failedDirs, poolVars>>

\* lines 244-258: a single file with a supported extension
SingleFile ==
    /\ pc = "config" /\ parsed = "ok" /\ target.kind = "file"
    /\ supportedExt(target.path)
    /\ files' = << target.path >>
    /\ pc' = "pool"
    /\ UNCHANGED <<fvars, configVars, summary, stack, readDirs, failedDirs, exitCode, poolVars>>

----------------------------------------------------------------------------
(* collectFiles / walk, lines 113-159 *)

Top == stack[Len(stack)]
Pop(stk) == SubSeq(stk, 1, Len(stk) - 1)
\* the for loop of the frame on top moves to its next entry
Advance(stk) == [stk EXCEPT ![Len(stk)].pos = @ + 1]

\* lines 220-232 and 129-135: collectFiles calls walk(rootDir); readdirSync
\* returns the entries or throws (then walk returns at once)
CollectFilesStart ==
    /\ pc = "config" /\ parsed = "ok" /\ target.kind = "dir"
    /\ \E readable \in BOOLEAN :
          IF readable
          THEN /\ stack' = << [dir |-> RootDir, pos |-> 1] >>
               /\ readDirs' = {RootDir}
               /\ failedDirs' = {}
          ELSE /\ stack' = << >>
               /\ readDirs' = {}
               /\ failedDirs' = {RootDir}
    /\ pc' = "collect"
    /\ UNCHANGED <<fvars, configVars, summary, files, exitCode, poolVars>>

\* WalkEntry with the `continue` taken for files instead of directories
WalkEntry_SkipFiles ==
    /\ pc = "collect" /\ stack # <<>>
    /\ Top.pos <= Len(Entries(Top.dir))
    /\ LET name == Entries(Top.dir)[Top.pos]
           fullPath == Append(Top.dir, name)
           relPath == fullPath
       IN  IF excluded(options.exclude, relPath, name) /\ ~isDirectory(fullPath)
           THEN /\ stack' = Advance(stack)
                /\ UNCHANGED <<files, readDirs, failedDirs>>
           ELSE IF isDirectory(fullPath)
           THEN \E readable \in BOOLEAN :
                   IF readable
                   THEN /\ stack' = Append(Advance(stack), [dir |-> fullPath, pos |-> 1])
                        /\ readDirs' = readDirs \cup {fullPath}
                        /\ UNCHANGED <<files, failedDirs>>
                   ELSE /\ stack' = Advance(stack)
                        /\ failedDirs' = failedDirs \cup {fullPath}
                        /\ UNCHANGED <<files, readDirs>>
           ELSE /\ files' = IF included(options.include, relPath, name)
                            THEN Append(files, fullPath) ELSE files
                /\ stack' = Advance(stack)
                /\ UNCHANGED <<readDirs, failedDirs>>
    /\ UNCHANGED <<fvars, configVars, summary, pc, exitCode, poolVars>>

\* WalkEntry without the try/catch around readdirSync: the error of an
\* unreadable directory unwinds every walk() on the stack
WalkEntry_AbortOnUnreadable ==
    /\ pc = "collect" /\ stack # <<>>
    /\ Top.pos <= Len(Entries(Top.dir))
    /\ LET name == Entries(Top.dir)[Top.pos]
           fullPath == Append(Top.dir, name)
           relPath == fullPath
       IN  IF excluded(options.exclude, relPath, name) /\ isDirectory(fullPath)
           THEN /\ stack' = Advance(stack)
                /\ UNCHANGED <<files, readDirs, failedDirs>>
           ELSE IF isDirectory(fullPath)
           THEN \E readable \in BOOLEAN :
                   IF readable
                   THEN /\ stack' = Append(Advance(stack), [dir |-> fullPath, pos |-> 1])
                        /\ readDirs' = readDirs \cup {fullPath}
                        /\ UNCHANGED <<files, failedDirs>>
                   ELSE /\ stack' = << >>
                        /\ failedDirs' = failedDirs \cup {fullPath}
                        /\ UNCHANGED <<files, readDirs>>
           ELSE /\ files' = IF included(options.include, relPath, name)
                            THEN Append(files, fullPath) ELSE files
                /\ stack' = Advance(stack)
                /\ UNCHANGED <<readDirs, failedDirs>>
    /\ UNCHANGED <<fvars, configVars, summary, pc, exitCode, poolVars>>

\* lines 137-153: one iteration of `for (const entry of entries)`
WalkEntry ==
    /\ pc = "collect" /\ stack # <<>>
    /\ Top.pos <= Len(Entries(Top.dir))
    /\ LET name == Entries(Top.dir)[Top.pos]
           fullPath == Append(Top.dir, name)
           relPath == fullPath
       IN  IF excluded(options.exclude, relPath, name) /\ isDirectory(fullPath)
           THEN \* continue
                /\ stack' = Advance(stack)
                /\ UNCHANGED <<files, readDirs, failedDirs>>
           ELSE IF isDirectory(fullPath)
           THEN \* walk(fullPath)
                \E readable \in BOOLEAN :
                   IF readable
                   THEN /\ stack' = Append(Advance(stack), [dir |-> fullPath, pos |-> 1])
                        /\ readDirs' = readDirs \cup {fullPath}
                        /\ UNCHANGED <<files, failedDirs>>
                   ELSE /\ stack' = Advance(stack)
                        /\ failedDirs' = failedDirs \cup {fullPath}
                        /\ UNCHANGED <<files, readDirs>>
           ELSE \* entry.isFile()
                /\ files' = IF included(options.include, relPath, name)
                            THEN Append(files, fullPath) ELSE files
                /\ stack' = Advance(stack)
                /\ UNCHANGED <<readDirs, failedDirs>>
    /\ UNCHANGED <<fvars, configVars, summary, pc, exitCode, poolVars>>

\* the for loop of the frame on top is over: walk returns
WalkReturn ==
    /\ pc = "collect" /\ stack # <<>>
    /\ Top.pos > Len(Entries(Top.dir))
    /\ stack' = Pop(stack)
    /\ UNCHANGED <<fvars, configVars, summary, pc, files, readDirs, failedDirs, exitCode, poolVars>>

\* lines 234-239: collectFiles returned an empty list
NoMatchingFiles ==
    /\ pc = "collect" /\ stack = <<>>
    /\ Len(files) = 0
    /\ pc' = "done"
    /\ UNCHANGED <<fvars, configVars, summary, files, stack, readDirs, failedDirs, exitCode, poolVars>>

\* FilesFound taken as soon as the list holds a file, with walk still on
\* the stack
FilesFound_Early ==
    /\ pc = "collect"
    /\ Len(files) > 0
    /\ pc' = "pool"
    /\ UNCHANGED <<fvars, configVars, summary, files, stack, readDirs, failedDirs, exitCode, poolVars>>

\* lines 241-243: collectFiles returned some files
FilesFound ==
    /\ pc = "collect" /\ stack = <<>>
    /\ Len(files) > 0
    /\ pc' = "pool"
    /\ UNCHANGED <<fvars, configVars, summary, files, stack, readDirs, failedDirs, exitCode, poolVars>>

----------------------------------------------------------------------------
(* The worker pool, lines 266-309 *)

\* readOnly with --dry forgotten
readOnly_CheckOnly == options.check

\* readOnly with --check forgotten
readOnly_DryOnly == options.dry

\* options.dry || options.check
readOnly == options.dry \/ options.check

scanVars == <<files, stack, readDirs, failedDirs>>

\* StartWorker with `i <= concurrency` as the loop condition
StartWorker_OneTooMany ==
    /\ pc = "pool" /\ wpc = "idle"
    /\ started <= options.concurrency
    /\ started' = started + 1
    /\ wpc' = "claim"
    /\ UNCHANGED <<fvars, configVars, summary, pc, scanVars, index, cur, formattedText,
                   filesChecked, filesChanged, changedFiles, disk, exitCode, disk0,
                   claims, formatted, writes, errors>>

\* lines 304-307: the for loop calls worker(); worker has no await, so the
\* call runs until the worker returns before the loop goes on
StartWorker ==
    /\ pc = "pool" /\ wpc = "idle"
    /\ started < options.concurrency
    /\ started' = started + 1
    /\ wpc' = "claim"
    /\ UNCHANGED <<fvars, configVars, summary, pc, scanVars, index, cur, formattedText,
                   filesChecked, filesChanged, changedFiles, disk, exitCode, disk0,
                   claims, formatted, writes, errors>>

\* WorkerClaim with `const i = ++index`
WorkerClaim_PreIncrement ==
    /\ pc = "pool" /\ wpc = "claim"
    /\ index' = index + 1
    /\ claims' = Append(claims, [w |-> started, i |-> index + 1])
    /\ IF index + 1 >= Len(files)
       THEN /\ wpc' = "idle"
            /\ UNCHANGED cur
       ELSE /\ wpc' = "probe"
            /\ cur' = index + 1
    /\ UNCHANGED <<fvars, configVars, summary, pc, scanVars, started, formattedText,
                   filesChecked, filesChanged, changedFiles, disk, exitCode, disk0,
                   formatted, writes, errors>>

\* lines 276-278: const i = index++; if (i >= files.length) return;
WorkerClaim ==
    /\ pc = "pool" /\ wpc = "claim"
    /\ index' = index + 1
    /\ claims' = Append(claims, [w |-> started, i |-> index])
    /\ IF index >= Len(files)
       THEN /\ wpc' = "idle"
            /\ UNCHANGED cur
       ELSE /\ wpc' = "probe"
            /\ cur' = index
    /\ UNCHANGED <<fvars, configVars, summary, pc, scanVars, started, formattedText,
                   filesChecked, filesChanged, changedFiles, disk, exitCode, disk0,
                   formatted, writes, errors>>

\* files[i], 0-based in the code
filePath == files[cur + 1]

\* lines 280-282: if (!isTextFile(filePath)) continue;
WorkerProbe ==
    /\ pc = "pool" /\ wpc = "probe"
    /\ \E openOk \in BOOLEAN :
          IF isTextFile(disk[filePath], openOk)
          THEN /\ wpc' = "format"
               /\ UNCHANGED formatted
          ELSE /\ wpc' = "claim"
               /\ formatted' = [formatted EXCEPT ![filePath] = Skipped]
    /\ UNCHANGED <<fvars, configVars, summary, pc, scanVars, index, started, cur, formattedText,
                   filesChecked, filesChanged, changedFiles, disk, exitCode, disk0,
                   claims, writes, errors>>

\* lines 298-300 reached from formatFile: the catch reports the error,
\* no counter has been touched
FormatThrows_Counted ==
    /\ formatted' = [formatted EXCEPT ![filePath] = Threw]
    /\ errors' = errors \cup {filePath}
    /\ wpc' = "claim"
    /\ filesChecked' = filesChecked + 1
    /\ UNCHANGED <<formattedText, filesChanged, changedFiles>>

\* the try/catch placed around the while loop: the worker returns
FormatThrows_Return ==
    /\ formatted' = [formatted EXCEPT ![filePath] = Threw]
    /\ errors' = errors \cup {filePath}
    /\ wpc' = "idle"
    /\ UNCHANGED <<formattedText, filesChecked, filesChanged, changedFiles>>

FormatThrows ==
    /\ formatted' = [formatted EXCEPT ![filePath] = Threw]
    /\ errors' = errors \cup {filePath}
    /\ wpc' = "claim"
    /\ UNCHANGED <<formattedText, filesChecked, filesChanged, changedFiles>>

\* FormatReturns with filesChecked++ moved inside `if (changed)`
FormatReturns_CheckedIfChanged(es) ==
    LET originalText == disk[filePath]
        ft == format(originalText, es)
        changed == ft # originalText
    IN  /\ formatted' = [formatted EXCEPT ![filePath] = Returned(es, ft)]
        /\ filesChecked' = IF changed THEN filesChecked + 1 ELSE filesChecked
        /\ filesChanged' = IF changed THEN filesChanged + 1 ELSE filesChanged
        /\ changedFiles' = IF changed THEN Append(changedFiles, filePath)
                           ELSE changedFiles
        /\ IF changed /\ ~readOnly
           THEN wpc' = "write" /\ formattedText' = ft
           ELSE wpc' = "claim" /\ UNCHANGED formattedText
        /\ UNCHANGED errors

\* FormatReturns with changedFiles.push outside `if (changed)`
FormatReturns_PushAlways(es) ==
    LET originalText == disk[filePath]
        ft == format(originalText, es)
        changed == ft # originalText
    IN  /\ formatted' = [formatted EXCEPT ![filePath] = Returned(es, ft)]
        /\ filesChecked' = filesChecked + 1
        /\ filesChanged' = IF changed THEN filesChanged + 1 ELSE filesChanged
        /\ changedFiles' = Append(changedFiles, filePath)
        /\ IF changed /\ ~readOnly
           THEN wpc' = "write" /\ formattedText' = ft
           ELSE wpc' = "claim" /\ UNCHANGED formattedText
        /\ UNCHANGED errors

\* FormatReturns with `changed` true whatever formatFile compared
FormatReturns_ChangedAlways(es) ==
    LET originalText == disk[filePath]
        ft == format(originalText, es)
        changed == TRUE
    IN  /\ formatted' = [formatted EXCEPT ![filePath] = Returned(es, ft)]
        /\ filesChecked' = filesChecked + 1
        /\ filesChanged' = IF changed THEN filesChanged + 1 ELSE filesChanged
        /\ changedFiles' = IF changed THEN Append(changedFiles, filePath)
                           ELSE changedFiles
        /\ IF changed /\ ~readOnly
           THEN wpc' = "write" /\ formattedText' = ft
           ELSE wpc' = "claim" /\ UNCHANGED formattedText
        /\ UNCHANGED errors

\* FormatReturns with changedFiles.unshift(filePath)
FormatReturns_Unshift(es) ==
    LET originalText == disk[filePath]
        ft == format(originalText, es)
        changed == ft # originalText
    IN  /\ formatted' = [formatted EXCEPT ![filePath] = Returned(es, ft)]
        /\ filesChecked' = filesChecked + 1
        /\ filesChanged' = IF changed THEN filesChanged + 1 ELSE filesChanged
        /\ changedFiles' = IF changed THEN <<filePath>> \o changedFiles
                           ELSE changedFiles
        /\ IF changed /\ ~readOnly
           THEN wpc' = "write" /\ formattedText' = ft
           ELSE wpc' = "claim" /\ UNCHANGED formattedText
        /\ UNCHANGED errors

\* FormatReturns with filesChecked++ in the else of `if (changed)`
FormatReturns_CheckedIfUnchanged(es) ==
    LET originalText == disk[filePath]
        ft == format(originalText, es)
        changed == ft # originalText
    IN  /\ formatted' = [formatted EXCEPT ![filePath] = Returned(es, ft)]
        /\ filesChecked' = IF changed THEN filesChecked ELSE filesChecked + 1
        /\ filesChanged' = IF changed THEN filesChanged + 1 ELSE filesChanged
        /\ changedFiles' = IF changed THEN Append(changedFiles, filePath)
                           ELSE changedFiles
        /\ IF changed /\ ~readOnly
           THEN wpc' = "write" /\ formattedText' = ft
           ELSE wpc' = "claim" /\ UNCHANGED formattedText
        /\ UNCHANGED errors

\* lines 285-297 up to the write: formatFile returns { formattedText,
\* changed } for the edits es of the language service; the counters and
\* the changed-path list are updated
FormatReturns(es) ==
    LET originalText == disk[filePath]
        ft == format(originalText, es)
        changed == ft # originalText
    IN  /\ formatted' = [formatted EXCEPT ![filePath] = Returned(es, ft)]
        /\ filesChecked' = filesChecked + 1
        /\ filesChanged' = IF changed THEN filesChanged + 1 ELSE filesChanged
        /\ changedFiles' = IF changed THEN Append(changedFiles, filePath)
                           ELSE changedFiles
        /\ IF changed /\ ~readOnly
           THEN wpc' = "write" /\ formattedText' = ft
           ELSE wpc' = "claim" /\ UNCHANGED formattedText
        /\ UNCHANGED errors

\* lines 284-300 up to the write: formatFile throws (readFileSync or the
\* language service), or it returns
WorkerFormat ==
    /\ pc = "pool" /\ wpc = "format"
    /\ \/ FormatThrows
       \/ \E es \in OracleEdits : FormatReturns(es)
    /\ UNCHANGED <<fvars, configVars, summary, pc, scanVars, index, started, cur,
                   disk, exitCode, disk0, claims, writes>>

\* WorkerWrite writing the text it read instead of the formatted text
WorkerWrite_OriginalText ==
    /\ pc = "pool" /\ wpc = "write"
    /\ writes' = [writes EXCEPT ![filePath] = @ + 1]
    /\ UNCHANGED <<disk, errors>>
    /\ wpc' = "claim"
    /\ formattedText' = <<>>
    /\ UNCHANGED <<fvars, configVars, summary, pc, scanVars, index, started, cur,
                   filesChecked, filesChanged, changedFiles, exitCode, disk0,
                   claims, formatted>>

\* WorkerWrite with a catch that takes the file back out of filesChanged
\* and of changedFiles
WorkerWrite_RollBack ==
    /\ pc = "pool" /\ wpc = "write"
    /\ writes' = [writes EXCEPT ![filePath] = @ + 1]
    /\ \/ /\ disk' = [disk EXCEPT ![filePath] = formattedText]
          /\ UNCHANGED <<errors, filesChanged, changedFiles>>
       \/ /\ \E left \in {disk[filePath], <<>>} :
                disk' = [disk EXCEPT ![filePath] = left]
          /\ errors' = errors \cup {filePath}
          /\ filesChanged' = filesChanged - 1
          /\ changedFiles' = SubSeq(changedFiles, 1, Len(changedFiles) - 1)
    /\ wpc' = "claim"
    /\ formattedText' = <<>>
    /\ UNCHANGED <<fvars, configVars, summary, pc, scanVars, index, started, cur,
                   filesChecked, exitCode, disk0, claims, formatted>>

\* lines 294-300: fs.writeFileSync(filePath, formattedText, "utf8"); when
\* it throws, the file is left as it was or truncated, and the catch
\* reports the error
WorkerWrite ==
    /\ pc = "pool" /\ wpc = "write"
    /\ writes' = [writes EXCEPT ![filePath] = @ + 1]
    /\ \/ /\ disk' = [disk EXCEPT ![filePath] = formattedText]
          /\ UNCHANGED errors
       \/ /\ \E left \in {disk[filePath], <<>>} :
                disk' = [disk EXCEPT ![filePath] = left]
          /\ errors' = errors \cup {filePath}
    /\ wpc' = "claim"
    /\ formattedText' = <<>>
    /\ UNCHANGED <<fvars, configVars, summary, pc, scanVars, index, started, cur,
                   filesChecked, filesChanged, changedFiles, exitCode, disk0,
                   claims, formatted>>

\* Finish testing the wrong counter
Finish_WrongCounter ==
    /\ pc = "pool" /\ wpc = "idle"
    /\ started = options.concurrency
    /\ exitCode' = IF readOnly
                   THEN (IF filesChecked > 0 THEN 1 ELSE 0)
                   ELSE exitCode
    /\ summary' = Summary(filesChecked, filesChanged)
    /\ pc' = "done"
    /\ UNCHANGED <<fvars, configVars, scanVars, poolVars>>

\* Finish setting the exit code in every mode
Finish_EveryMode ==
    /\ pc = "pool" /\ wpc = "idle"
    /\ started = options.concurrency
    /\ exitCode' = IF filesChanged > 0 THEN 1 ELSE 0
    /\ summary' = Summary(filesChecked, filesChanged)
    /\ pc' = "done"
    /\ UNCHANGED <<fvars, configVars, scanVars, poolVars>>

\* Finish printing the summary only when some file was checked
Finish_SummaryIfChecked ==
    /\ pc = "pool" /\ wpc = "idle"
    /\ started = options.concurrency
    /\ exitCode' = IF readOnly
                   THEN (IF filesChanged > 0 THEN 1 ELSE 0)
                   ELSE exitCode
    /\ summary' = IF filesChecked > 0 THEN Summary(filesChecked, filesChanged) ELSE summary
    /\ pc' = "done"
    /\ UNCHANGED <<fvars, configVars, scanVars, poolVars>>

\* Finish without `await Promise.all(workers)`: the outcome is derived as
\* soon as the last worker was started
Finish_NoAwait ==
    /\ pc = "pool"
    /\ started = options.concurrency
    /\ exitCode' = IF readOnly
                   THEN (IF filesChanged > 0 THEN 1 ELSE 0)
                   ELSE exitCode
    /\ summary' = Summary(filesChecked, filesChanged)
    /\ pc' = "done"
    /\ UNCHANGED <<fvars, configVars, scanVars, poolVars>>

\* lines 309-337: await Promise.all(workers), the summary, the exit code
Finish ==
    /\ pc = "pool" /\ wpc = "idle"
    /\ started = options.concurrency
    /\ exitCode' = IF readOnly
                   THEN (IF filesChanged > 0 THEN 1 ELSE 0)
                   ELSE exitCode
    /\ summary' = Summary(filesChecked, filesChanged)
    /\ pc' = "done"
    /\ UNCHANGED <<fvars, configVars, scanVars, poolVars>>

----------------------------------------------------------------------------
(* Specifications *)

Init == FormatIdle /\ InitRunVars

Next ==
    \/ ParseArgsThrows
    \/ ShowHelp
    \/ BadTarget
    \/ UnsupportedFile
    \/ SingleFile
    \/ CollectFilesStart
    \/ WalkEntry
    \/ WalkReturn
    \/ NoMatchingFiles
    \/ FilesFound
    \/ StartWorker
    \/ WorkerClaim
    \/ WorkerProbe
    \/ WorkerFormat
    \/ WorkerWrite
    \/ Finish

Spec == Init /\ [][Next]_vars

\* run() is one sequential, synchronous computation: worker() has no await,
\* every file system call returns or throws, so a step that can be taken
\* is taken.
\* The runs whose termination is checked: those whose exclude list prunes
\* a directory of the tree, so that the file list has at most three files.
InitLive ==
    /\ Init
    /\ options.exclude \in { DefaultExclude, << <<Lit(N("src", "")), Lit(N("gen", ""))>> >> }

SpecLive == InitLive /\ [][Next]_vars /\ WF_vars(Next)

InitFormat == InitFormatVars /\ RunIdle

NextFormat ==
    \/ FormatNoEdits
    \/ FormatBegin
    \/ FormatApply
    \/ FormatReturn

SpecFormat == InitFormat /\ [][NextFormat]_vars

----------------------------------------------------------------------------
(* Properties of format() -- checked under SpecFormat *)

\* every range [start, start + length) lies within [0, len(original)]
InBounds(t, es) ==
    \A k \in 1..Len(es) : es[k].start + es[k].length <= Len(t)

\* ranges of distinct edits are disjoint and start at distinct offsets
NonOverlapping(es) ==
    \A j, k \in 1..Len(es) :
        j < k =>
            /\ es[j].start # es[k].start
            /\ \/ es[j].start + es[j].length <= es[k].start
               \/ es[k].start + es[k].length <= es[j].start

\* Reference simultaneous application: the original text cut at the edits'
\* ranges, by direct slicing of the original, in ascending start order.
RECURSIVE Simultaneous(_, _, _)
Simultaneous(t, S, pos) ==
    IF S = {} THEN SubSeq(t, pos + 1, Len(t))
    ELSE LET e == CHOOSE x \in S : \A y \in S : x.start <= y.start
         IN  SubSeq(t, pos + 1, e.start) \o e.newText
                \o Simultaneous(t, S \ {e}, e.start + e.length)

Reference(t, es) == Simultaneous(t, { es[k] : k \in 1..Len(es) }, 0)

\* every reordering of an edit list
Reorderings(es) ==
    { [k \in 1..Len(es) |-> es[q[k]]] : q \in Permutations(1..Len(es)) }

\* C1: for every original text and every list of pairwise non-overlapping,
\* in-bounds edits, the text format() returns equals the reference
\* simultaneous application and is the same for every permutation of the list.
C1_OrderIndependent ==
    (fpc = "returned" /\ InBounds(text, edits) /\ NonOverlapping(edits)) =>
        /\ result = Reference(text, edits)
        /\ \A es \in Reorderings(edits) : format(text, es) = result

\* the edit the loop of format() is about to apply, and the end of its range
NextEdit == edits[fi]
EndOffset(e) == e.start + e.length

\* C25 (checked under SpecFormat): for pairwise non-overlapping, in-bounds
\* edits, whenever format() is about to apply an edit the working buffer
\* up to that edit's end offset is the original text up to that offset.
C25_OffsetsStayValid ==
    (fpc = "loop" /\ fi >= 1 /\ InBounds(text, edits) /\ NonOverlapping(edits)) =>
        SliceTo(result, EndOffset(NextEdit)) = SliceTo(text, EndOffset(NextEdit))

----------------------------------------------------------------------------
(* Properties of run() -- checked under Spec *)

Range(s) == { s[k] : k \in 1..Len(s) }

\* the apply phase is over: every worker was started and has returned, and
\* run() went on to its end
ApplyDone == pc = "done" /\ started >= 1 /\ wpc = "idle"

\* the run got past the configuration phase
PassedConfig ==
    /\ parsed = "ok"
    /\ \/ target.kind = "dir"
       \/ target.kind = "file"
          /\ target.path[Len(target.path)].ext \in {"ts", "tsx", "js", "TS", "TSX", "JS"}

\* formatFile returned for f and its text differs from the original
FoundChanged(f) == formatted[f].st = "returned" /\ formatted[f].text # disk0[f]

\* how often index i was claimed
TimesClaimed(i) == Cardinality({ k \in 1..Len(claims) : claims[k].i = i })

\* C2: no index of the file list is ever claimed twice, and once the apply
\* phase is over every index was claimed exactly once and formatFile or
\* the binary probe has dealt with its file, for every concurrency value.
C2_ClaimExclusivity ==
    /\ \A i \in 0..(Len(files) - 1) : TimesClaimed(i) <= 1
    /\ ApplyDone =>
          \A i \in 0..(Len(files) - 1) :
              /\ TimesClaimed(i) = 1
              /\ formatted[files[i + 1]] # NotFormatted

\* C2 witness: a finished apply phase with more workers than files
C2_Witness ==
    /\ ApplyDone
    /\ options.concurrency > Len(files)
    /\ Len(claims) = Len(files) + options.concurrency

\* C3: with --dry or --check no file is ever written: the on-disk content
\* of every file is its content at the start of the run, in every state.
C3_ReadOnlyModesNeverWrite ==
    (options.dry \/ options.check) =>
        /\ disk = disk0
        /\ \A f \in AllFiles : writes[f] = 0

\* C3 witness: a dry run that found a changed file
C3_Witness ==
    /\ ApplyDone /\ options.dry /\ ~options.check
    /\ \E f \in AllFiles : FoundChanged(f)

\* C4: with --dry or --check, once the apply phase is over the exit status
\* is 1 if filesChanged > 0 and 0 otherwise.
C4_ReadOnlyExitStatus ==
    (ApplyDone /\ (options.dry \/ options.check)) =>
        exitCode = (IF filesChanged > 0 THEN 1 ELSE 0)

\* C4 witness: a check run that ends with status 1
C4_Witness ==
    /\ ApplyDone /\ options.check /\ filesChanged > 0 /\ exitCode = 1

\* C5: in write mode every run that got past the configuration phase ends
\* with exit status 0, whatever changed and whatever failed.
C5_WriteModeExitsZero ==
    (pc = "done" /\ PassedConfig /\ ~options.dry /\ ~options.check) => exitCode = 0

\* C5 witness: a write run that ended with a changed file and a failure
C5_Witness ==
    /\ ApplyDone /\ ~options.dry /\ ~options.check
    /\ filesChanged > 0 /\ errors # {}

\* C6: what a --dry run and a --check run end with is the same function of
\* the file list and of what the probe and formatFile did for each file,
\* a function in which the mode does not occur: filesChecked, filesChanged,
\* the set of changed paths, the exit status, and an unchanged disk; and
\* the disk differs from its initial content only in write mode.
C6_ModeEquivalence ==
    /\ (ApplyDone /\ (options.dry \/ options.check)) =>
          /\ filesChecked = Cardinality({ f \in Range(files) : formatted[f].st = "returned" })
          /\ filesChanged = Cardinality({ f \in Range(files) : FoundChanged(f) })
          /\ Range(changedFiles) = { f \in Range(files) : FoundChanged(f) }
          /\ exitCode = (IF \E f \in Range(files) : FoundChanged(f) THEN 1 ELSE 0)
          /\ disk = disk0
    /\ disk # disk0 => (~options.dry /\ ~options.check)

\* C6 witness: a check run over several files, one changed, one not
C6_Witness ==
    /\ ApplyDone /\ options.check /\ ~options.dry
    /\ \E f, g \in Range(files) :
          /\ FoundChanged(f)
          /\ formatted[g].st = "returned" /\ ~FoundChanged(g)

\* C7: after a write-mode run every file found changed was written once,
\* and holds its formatted text when that write succeeded; every other
\* file was never written and holds its original content.
C7_WriteModeDisk ==
    /\ \A f \in AllFiles : writes[f] <= 1
    /\ (pc = "done" /\ ~options.dry /\ ~options.check) =>
          \A f \in AllFiles :
              IF FoundChanged(f)
              THEN /\ writes[f] = 1
                   /\ f \notin errors => disk[f] = formatted[f].text
              ELSE /\ writes[f] = 0
                   /\ disk[f] = disk0[f]

\* C7 witness: a write run that wrote one file, left a checked file alone
\* and skipped or failed on another
C7_Witness ==
    /\ ApplyDone /\ ~options.dry /\ ~options.check
    /\ \E f, g, h \in Range(files) :
          /\ FoundChanged(f) /\ f \notin errors /\ disk[f] # disk0[f]
          /\ formatted[g].st = "returned" /\ ~FoundChanged(g)
          /\ formatted[h].st \in {"skipped", "threw"}

\* the directories that are proper ancestors of path p, below the root
Ancestors(p) == { SubSeq(p, 1, n) : n \in 1..(Len(p) - 1) }

\* directory d matches an exclude pattern by relative path or by name
ExcludedEntry(d) == excluded(options.exclude, d, d[Len(d)])

\* C8: for a directory root, no file below a directory that matches an
\* exclude pattern is ever in the file list, and the entries of such a
\* directory, and of the directories below it, are never read.
C8_DirectoryPruning ==
    target.kind = "dir" =>
        /\ \A f \in Range(files) : \A d \in Ancestors(f) : ~ExcludedEntry(d)
        /\ \A r \in readDirs : \A n \in 1..Len(r) : ~ExcludedEntry(SubSeq(r, 1, n))

\* C8 witness: the traversal is over, and a file that matches the include
\* glob lies in an excluded directory
C8_Witness ==
    /\ target.kind = "dir" /\ pc = "pool" /\ Len(files) >= 2
    /\ \E f \in AllFiles :
          /\ included(options.include, f, f[Len(f)])
          /\ \E d \in Ancestors(f) : ExcludedEntry(d)

\* C9: for a directory root, every file of the list matches the include
\* glob and matches no exclude pattern, by relative path or by name.
C9_FileExclusion ==
    target.kind = "dir" =>
        \A f \in Range(files) :
            /\ ~ExcludedEntry(f)
            /\ included(options.include, f, f[Len(f)])

C11_FailureIsolation ==
    (ApplyDone /\ errors # {}) =>
        \A i \in 0..(Len(files) - 1) :
            LET g == files[i + 1]
            IN  /\ TimesClaimed(i) = 1
                /\ formatted[g] # NotFormatted
                /\ g \in Range(changedFiles) <=> FoundChanged(g)
                /\ g \notin errors =>
                      disk[g] = IF FoundChanged(g) /\ ~options.dry /\ ~options.check
                                THEN formatted[g].text
                                ELSE disk0[g]

\* C11 witness: one worker, the first file of the list failed, a later
\* file was found changed and written
C11_Witness ==
    /\ ApplyDone /\ options.concurrency = 1 /\ Len(files) >= 3
    /\ formatted[files[1]] = Threw
    /\ \E k \in 2..Len(files) :
          /\ FoundChanged(files[k]) /\ files[k] \notin errors
          /\ disk[files[k]] = formatted[files[k]].text

\* C12 (checked under SpecFormat): format() returns a text only when every
\* edit's range lies within the original text; with a range out of bounds
\* it fails instead of returning.
C12_MalformedEditFails ==
    fpc = "returned" => InBounds(text, edits)

\* the command line or the target path is in error: parseArgs throws
\* (unknown option, missing value, --concurrency not a positive integer,
\* second positional argument), no target path, target path not existing
ConfigError ==
    \/ parsed = "throws"
    \/ parsed = "ok" /\ target.kind \in {"none", "missing"}

\* C13: a run with a configuration error never reads a directory, never
\* lists, claims, probes, formats or writes a file, and ends with exit
\* status 2.
C13_ConfigErrorExitsTwo ==
    ConfigError =>
        /\ readDirs = {} /\ stack = <<>> /\ files = <<>>
        /\ index = 0 /\ started = 0 /\ claims = <<>>
        /\ \A f \in AllFiles : formatted[f] = NotFormatted /\ writes[f] = 0
        /\ disk = disk0
        /\ pc = "done" => exitCode = 2

\* C13 witness: parseArgs threw and run() has returned
C13_Witness ==
    pc = "done" /\ parsed = "throws" /\ exitCode = 2 /\ summary = NoSummary

\* C14: for a single-file target whose extension is .ts, .tsx or .js in
\* any letter case, the file list is exactly that file, whatever the
\* include glob and the exclude patterns, and no directory is read; with
\* another extension nothing is listed or processed and the run ends with
\* exit status 2.
C14_SingleFileTarget ==
    (parsed = "ok" /\ target.kind = "file") =>
        /\ readDirs = {}
        /\ IF target.path[Len(target.path)].ext \in {"ts", "tsx", "js", "TS", "TSX", "JS"}
           THEN /\ pc \in {"pool", "done"} => files = << target.path >>
                /\ pc = "done" => (exitCode # 2 /\ formatted[target.path] # NotFormatted)
           ELSE /\ files = <<>> /\ index = 0 /\ started = 0
                /\ \A f \in AllFiles : formatted[f] = NotFormatted /\ writes[f] = 0
                /\ pc = "done" => exitCode = 2

\* C14 witness: the target E.TS, which the include glob *.ts does not
\* match, has been formatted
C14_Witness ==
    /\ pc = "done" /\ target = [kind |-> "file", path |-> <<N("E", "TS")>>]
    /\ options.include = << Ext({"ts"}) >>
    /\ ~included(options.include, target.path, target.path[1])
    /\ formatted[target.path].st = "returned"

\* C15 as stated: after the apply phase filesChecked is the number of
\* files of the list that passed the probe and were processed without any
\* failure, the write included.
C15_CheckedCountsUnfailed ==
    ApplyDone =>
        filesChecked =
            Cardinality({ f \in Range(files) : formatted[f].st = "returned" /\ f \notin errors })

\* C15 amended: after the apply phase filesChecked is the number of files
\* of the list that passed the probe and for which formatFile returned,
\* changed or not, a file whose write then failed included.
C15_CheckedCountsReturned ==
    ApplyDone =>
        /\ filesChecked = Cardinality({ f \in Range(files) : formatted[f].st = "returned" })
        /\ filesChecked = Len(files)
              - Cardinality({ f \in Range(files) : formatted[f].st \in {"skipped", "threw"} })

\* C15 witness: a finished run with a skipped file, an unchanged file and
\* a changed file whose write failed
C15_Witness ==
    /\ ApplyDone
    /\ \E f, g, h \in Range(files) :
          /\ formatted[f] = Skipped
          /\ formatted[g].st = "returned" /\ ~FoundChanged(g)
          /\ FoundChanged(h) /\ h \in errors

\* C16: after the apply phase filesChanged is the number of files of the
\* list whose formatted text differs from their original text, and the
\* changed-path list holds the path of each of them once and nothing else.
C16_NoLostUpdates ==
    ApplyDone =>
        /\ filesChanged = Cardinality({ f \in Range(files) : FoundChanged(f) })
        /\ Range(changedFiles) = { f \in Range(files) : FoundChanged(f) }
        /\ Len(changedFiles) = Cardinality(Range(changedFiles))

\* C16 witness: two workers, two changed files and an unchanged one
C16_Witness ==
    /\ ApplyDone /\ options.concurrency >= 2
    /\ Len(changedFiles) = 2 /\ filesChanged = 2
    /\ \E g \in Range(files) : formatted[g].st = "returned" /\ ~FoundChanged(g)

\* a null byte among the first 1024 bytes of the content
NulInPrefix(content) ==
    \E k \in 1..Len(content) : k <= 1024 /\ content[k] = "NUL"

\* C17: a file of the list with a null byte among its first 1024 bytes is
\* never given to formatFile, never written, never counted, never in the
\* changed-path list and never reported as an error; the counters and the
\* exit status are those of the other files.
C17_BinarySkippedSilently ==
    /\ \A f \in Range(files) :
          NulInPrefix(disk0[f]) =>
              /\ formatted[f] \in {NotFormatted, Skipped}
              /\ writes[f] = 0 /\ disk[f] = disk0[f]
              /\ f \notin Range(changedFiles)
              /\ f \notin errors
    /\ filesChecked <= Cardinality({ f \in Range(files) : ~NulInPrefix(disk0[f]) })
    /\ ApplyDone =>
          exitCode = IF /\ options.dry \/ options.check
                        /\ \E g \in Range(files) : ~NulInPrefix(disk0[g]) /\ FoundChanged(g)
                     THEN 1 ELSE 0

\* C17 witness: a check run that skipped a binary file and exits with 1
\* for another file
C17_Witness ==
    /\ ApplyDone /\ options.check /\ exitCode = 1
    /\ \E f \in Range(files) : NulInPrefix(disk0[f]) /\ formatted[f] = Skipped

\* the claimed indices of the file list whose processing is not over
InFlight ==
    { claims[k].i : k \in { j \in 1..Len(claims) :
                               /\ claims[j].i < Len(files)
                               /\ wpc \in {"probe", "format", "write"}
                               /\ cur = claims[j].i } }

\* C18: at every moment at most options.concurrency claimed files are
\* still being processed and at most options.concurrency workers have been
\* started; when the apply phase is over exactly options.concurrency
\* workers were started, each of which claimed at least one index.
C18_BoundedConcurrency ==
    /\ Cardinality(InFlight) <= options.concurrency
    /\ started <= options.concurrency
    /\ ApplyDone =>
          /\ started = options.concurrency
          /\ { claims[k].w : k \in 1..Len(claims) } = 1..options.concurrency

\* C18 witness: a file is being processed in a run with two workers
C18_Witness ==
    /\ pc = "pool" /\ wpc = "format" /\ options.concurrency = 2
    /\ Cardinality(InFlight) = 1 /\ Len(files) >= 2

\* C21: when the summary is reported and the exit status is set, every
\* worker was started and has returned, every index of the file list was
\* claimed once and its file dealt with, no file is being processed, and
\* the summary holds the final counters; from then on filesChecked,
\* filesChanged, the changed-path list, the disk and the exit status do not
\* change.
C21_OutcomeAfterApply ==
    /\ [](summary.reported =>
            /\ wpc = "idle" /\ started = options.concurrency
            /\ InFlight = {}
            /\ \A i \in 0..(Len(files) - 1) :
                  TimesClaimed(i) = 1 /\ formatted[files[i + 1]] # NotFormatted
            /\ index >= Len(files)
            /\ summary = Summary(filesChecked, filesChanged)
            /\ (options.dry \/ options.check) =>
                  exitCode = (IF filesChanged > 0 THEN 1 ELSE 0))
    /\ [][summary.reported =>
            UNCHANGED <<filesChecked, filesChanged, changedFiles, disk, exitCode,
                        summary, index, formatted>>]_vars

\* C21 witness: the summary of a write run over several files, one of them
\* written, has been reported by the second worker's end
C21_Witness ==
    /\ summary.reported /\ pc = "done"
    /\ options.concurrency = 2 /\ Len(files) >= 2
    /\ filesChanged >= 1 /\ disk # disk0

\* C22: before collectFiles has returned no index is claimed, no worker is
\* started and no file is probed, formatted or written; once a worker may
\* run, walk has returned (its stack is empty) and the file list never
\* changes again.
C22_SequentialPhases ==
    /\ [](pc \in {"config", "collect"} =>
            /\ index = 0 /\ started = 0 /\ wpc = "idle" /\ claims = <<>>
            /\ \A f \in AllFiles : formatted[f] = NotFormatted /\ writes[f] = 0
            /\ disk = disk0 /\ errors = {}
            /\ filesChecked = 0 /\ filesChanged = 0 /\ changedFiles = <<>>)
    /\ []((pc = "pool" \/ started >= 1 \/ claims # <<>>) => stack = <<>>)
    /\ [][(pc = "pool" \/ started >= 1) => files' = files]_vars

\* C22 witness: a worker is writing a file of a list of several files that
\* the traversal of several directories produced
C22_Witness ==
    /\ pc = "pool" /\ wpc = "write" /\ target.kind = "dir"
    /\ Len(files) >= 2 /\ Cardinality(readDirs) >= 2 /\ stack = <<>>

\* the write of file f threw: formatFile had returned, and the catch
\* reported an error for f
WriteFailed(f) == formatted[f].st = "returned" /\ f \in errors

\* C23: a file whose write threw (write mode only) stays counted in
\* filesChanged and its path stays in the changed-path list; the worker
\* goes on, so that once the apply phase is over every file of the list
\* was claimed once and dealt with, and the exit status is 0.
C23_WriteFailureKept ==
    /\ \A f \in AllFiles :
          WriteFailed(f) =>
              /\ ~options.dry /\ ~options.check
              /\ writes[f] = 1
              /\ f \in Range(changedFiles)
              /\ filesChanged >= 1
    /\ filesChanged = Cardinality({ f \in AllFiles : FoundChanged(f) })
    /\ Len(changedFiles) = filesChanged
    /\ (\E f \in AllFiles : WriteFailed(f)) =>
          /\ wpc # "idle" \/ index >= Len(files)
          /\ ApplyDone =>
                /\ \A i \in 0..(Len(files) - 1) :
                      TimesClaimed(i) = 1 /\ formatted[files[i + 1]] # NotFormatted
                /\ exitCode = 0

\* C23 witness: the write of the first file of the list threw, and the
\* files after it were formatted, one of them written
C23_Witness ==
    /\ ApplyDone /\ Len(files) >= 3
    /\ WriteFailed(files[1])
    /\ files[1] \in Range(changedFiles)
    /\ formatted[files[2]].st = "returned"
    /\ FoundChanged(files[3]) /\ files[3] \notin errors
    /\ disk[files[3]] = formatted[files[3]].text

\* formatFile returned for f and the language service had given no edit
EmptyEditSet(f) == formatted[f].st = "returned" /\ formatted[f].edits = <<>>

\* C24: for a file the language service gives no edit for, the text
\* format() returns is the original text; the file is counted in
\* filesChecked, not in filesChanged, its path is not in the changed-path
\* list, and it is never written, in any mode.
C24_EmptyEditSetUnchanged ==
    /\ \A f \in AllFiles :
          EmptyEditSet(f) =>
              /\ formatted[f].text = disk0[f]
              /\ f \notin Range(changedFiles)
              /\ writes[f] = 0 /\ disk[f] = disk0[f]
    /\ filesChecked = Cardinality({ f \in AllFiles : formatted[f].st = "returned" })
    /\ filesChanged <= Cardinality({ f \in AllFiles :
                                        formatted[f].st = "returned" /\ ~EmptyEditSet(f) })
    /\ Len(changedFiles) = filesChanged

\* C24 witness: a write run over several files has ended, the language
\* service gave no edit for any of them
C24_Witness ==
    /\ ApplyDone /\ ~options.dry /\ ~options.check
    /\ Len(files) >= 2
    /\ \A f \in Range(files) : EmptyEditSet(f)
    /\ filesChecked = Len(files) /\ filesChanged = 0 /\ changedFiles = <<>>

\* the directory that holds entry p
Parent(p) == SubSeq(p, 1, Len(p) - 1)

\* collectFiles has returned
TraversalOver == parsed = "ok" /\ target.kind = "dir" /\ pc \in {"pool", "done"}

\* walk(d) was called and readdirSync(d) threw
Unreadable(d) == d \in failedDirs

\* directory d is one walk has to call itself for: the root, or a
\* directory that is not excluded, listed by a directory that was read
ToVisit(d) ==
    \/ d = RootDir
    \/ Parent(d) \in readDirs /\ ~ExcludedEntry(d)

\* C26: once the traversal of a tree with an unreadable directory is over,
\* every directory walk had to visit was read or found unreadable, every
\* file that matches the include glob, matches no exclude pattern
\* and lies below no excluded and no unreadable directory is in the file
\* list, no file from below an unreadable directory is; no error is
\* reported for the directory, and the exit status is 0 unless a read-only
\* run found a changed file.
C26_UnreadableDirectoryIsEmpty ==
    (TraversalOver /\ \E d \in Dirs : Unreadable(d)) =>
        /\ \A f \in AllFiles :
              ( /\ included(options.include, f, f[Len(f)])
                /\ ~ExcludedEntry(f)
                /\ \A d \in Ancestors(f) : ~ExcludedEntry(d)
                /\ \A d \in Ancestors(f) \cup {RootDir} : ~Unreadable(d) )
              => f \in Range(files)
        /\ \A f \in Range(files) : \A d \in Ancestors(f) \cup {RootDir} : d \in readDirs
        /\ \A d \in Dirs : ToVisit(d) => (d \in readDirs \/ Unreadable(d))
        /\ readDirs \cap failedDirs = {}
        /\ errors \subseteq Range(files)
        /\ index = 0 => errors = {}
        /\ pc = "done" =>
              exitCode = IF (options.dry \/ options.check) /\ filesChanged > 0
                         THEN 1 ELSE 0

\* C26 witness: node_modules was not excluded and could not be read, src
\* after it was read, its file is in the list, and the run ended with 0
C26_Witness ==
    /\ TraversalOver /\ pc = "done" /\ exitCode = 0
    /\ Unreadable(<<N("node_modules", "")>>)
    /\ <<N("src", "")>> \in readDirs
    /\ <<N("src", ""), N("b", "ts")>> \in Range(files)
    /\ <<N("node_modules", ""), N("c", "ts")>> \notin Range(files)

\* path f is in the changed-path list
InChangedFiles(f) == f \in Range(changedFiles)

\* the files of the list claimed so far, in list order
ClaimedFiles == SubSeq(files, 1, Min(index, Len(files)))

\* C27: in every state, for every concurrency value, the indices were
\* claimed in ascending order 0, 1, 2, ..., and the changed-path list is
\* the file list restricted to the paths it holds (a subsequence of the
\* file list, in traversal order, without repetition): it is the sequence
\* of the claimed files found changed, which depends on the tree and on
\* what formatFile returned only.
C27_ChangedInTraversalOrder ==
    /\ \A k \in 1..Len(claims) : claims[k].i = k - 1
    /\ changedFiles = SelectSeq(files, InChangedFiles)
    /\ changedFiles = SelectSeq(ClaimedFiles, FoundChanged)

\* C27 witness: two workers, the first and the last of at least three
\* files were found changed, the ones between them were not
C27_Witness ==
    /\ ApplyDone /\ options.concurrency = 2 /\ Len(files) >= 3
    /\ changedFiles = << files[1], files[Len(files)] >>

\* C28: in every state filesChanged <= filesChecked <= the number of
\* claimed indices <= Len(files) + options.concurrency, and filesChanged is
\* the length of the changed-path list.
C28_CounterBounds ==
    /\ filesChanged <= filesChecked
    /\ filesChecked <= Len(claims)
    /\ Len(claims) = index
    /\ Len(claims) <= Len(files) + options.concurrency
    /\ filesChanged = Len(changedFiles)

\* C28 witness: the run is over, every worker made its last claim beyond
\* the end of the list, and the three counts differ
C28_Witness ==
    /\ ApplyDone /\ options.concurrency = 2
    /\ Len(claims) = Len(files) + options.concurrency
    /\ 0 < filesChanged /\ filesChanged < filesChecked /\ filesChecked < Len(files)

----------------------------------------------------------------------------
(* Termination of run() -- checked under SpecLive *)

====
